---- MODULE Spec2Model ----
(***************************************************************************)
(* Replication and conflict-resolution engine of commad: the content       *)
(* merger (SyncService.mergeContent / mergeLinesByContent), the local      *)
(* PouchDB document store with its revision trees, DatabaseService's       *)
(* saveDocument and SyncService's automatic conflict resolution.           *)
(***************************************************************************)
EXTENDS Integers, Sequences, FiniteSets, TLC

(***************************************************************************)
(* Text.  A body is a sequence of text atoms.  Text typed by a user is one *)
(* atom per character; the literal marker text that mergeContent writes    *)
(* into a composite is kept as whole atoms (it never holds a newline).     *)
(***************************************************************************)
NL == "\n"
SP == " "
Alphabet == {"a", "b", SP, NL}
Whitespace == {SP, NL}

MaxLen == 3

RECURSIVE StringsUpTo(_)
StringsUpTo(n) ==
  IF n = 0 THEN {<<>>}
  ELSE LET shorter == StringsUpTo(n - 1)
       IN  shorter \cup {Append(s, c) : s \in {t \in shorter : Len(t) = n - 1}, c \in Alphabet}

Bodies == StringsUpTo(MaxLen)

\* String.prototype.trim: strip leading and trailing whitespace.
RECURSIVE TrimLeft(_)
TrimLeft(s) ==
  IF s = <<>> THEN s
  ELSE IF Head(s) \in Whitespace THEN TrimLeft(Tail(s)) ELSE s

RECURSIVE TrimRight(_)
TrimRight(s) ==
  IF s = <<>> THEN s
  ELSE IF s[Len(s)] \in Whitespace THEN TrimRight(SubSeq(s, 1, Len(s) - 1)) ELSE s

Trim(s) == TrimRight(TrimLeft(s))

\* String.prototype.split('\n'): the lines of s; the empty string has one empty line.
RECURSIVE SplitFrom(_, _, _)
SplitFrom(s, i, cur) ==
  IF i > Len(s) THEN <<cur>>
  ELSE IF s[i] = NL THEN <<cur>> \o SplitFrom(s, i + 1, <<>>)
  ELSE SplitFrom(s, i + 1, Append(cur, s[i]))

Split(s) == SplitFrom(s, 1, <<>>)

\* Array.prototype.join('\n').
RECURSIVE Join(_)
Join(lines) ==
  IF lines = <<>> THEN <<>>
  ELSE IF Len(lines) = 1 THEN lines[1]
  ELSE lines[1] \o <<NL>> \o Join(Tail(lines))

\* Array.prototype.includes.
Includes(lines, line) == \E i \in 1..Len(lines) : lines[i] = line

\* String.prototype.startsWith.
StartsWith(s, p) == Len(p) <= Len(s) /\ SubSeq(s, 1, Len(p)) = p

Min(a, b) == IF a < b THEN a ELSE b

(***************************************************************************)
(* Content merger.  A document version is a record                         *)
(*   [content, updatedAt, createdAt]                                       *)
(* with timestamps as naturals; 0 stands for an absent timestamp, which is *)
(* what `doc.updatedAt || doc.createdAt || 0` falls through on.            *)
(***************************************************************************)

\* `doc.content || ''`: every stored document carries a string content.
ContentOf(doc) == doc.content

\* new Date(doc.updatedAt || doc.createdAt || 0)
TimeOf(doc) ==
  IF doc.updatedAt # 0 THEN doc.updatedAt
  ELSE IF doc.createdAt # 0 THEN doc.createdAt
  ELSE 0

\* mergeLinesByContent's `null`: a merged line array is never empty.
NoMerge == <<>>

\* Variant: every line counts as contained.
ContainedCountAll(lines, other) == Len(lines)

\* lines.filter(line => line.trim() && other.includes(line)).length
ContainedCount(lines, other) ==
  Cardinality({i \in 1..Len(lines) : Trim(lines[i]) # <<>> /\ Includes(other, lines[i])})

\* The while loop counting the equal leading lines.
RECURSIVE CommonStartFrom(_, _, _)
CommonStartFrom(lines1, lines2, n) ==
  IF n < Min(Len(lines1), Len(lines2)) /\ lines1[n + 1] = lines2[n + 1]
  THEN CommonStartFrom(lines1, lines2, n + 1)
  ELSE n

mergeLinesByContent(lines1, lines2) ==
  LET lines1Str == Join(lines1)
      lines2Str == Join(lines2)
      commonStart == CommonStartFrom(lines1, lines2, 0)
  IN
  IF /\ Len(lines1) < 5
     /\ Len(lines2) > Len(lines1) * 2
     /\ ContainedCount(lines1, lines2) * 10 >= Len(lines1) * 8
  THEN lines2
  ELSE IF /\ Len(lines2) < 5
          /\ Len(lines1) > Len(lines2) * 2
          /\ ContainedCount(lines2, lines1) * 10 >= Len(lines2) * 8
  THEN lines1
  ELSE IF StartsWith(lines1Str, lines2Str) \/ StartsWith(lines2Str, lines1Str)
  THEN (IF Len(lines1) > Len(lines2) THEN lines1 ELSE lines2)
  ELSE IF commonStart > 0 /\ commonStart * 2 >= Min(Len(lines1), Len(lines2))
  THEN SubSeq(lines1, 1, commonStart)
         \o SubSeq(lines1, commonStart + 1, Len(lines1))
         \o SubSeq(lines2, commonStart + 1, Len(lines2))
  ELSE NoMerge

\* The two marker lines and the trailing notes of a composite.  ToString
\* stands for Date.prototype.toLocaleString.
RecentMarker(t) == <<"<<<<<<< Recent Version (", ToString(t), ")">>
EarlierMarker(t) == <<">>>>>>> Earlier Version (", ToString(t), ")">>
Separator == <<"=======">>
NoteMerged == <<"<!-- AUTO-MERGED: Both versions preserved above -->">>
NoteEdit == <<"<!-- Edit as needed and remove conflict markers -->">>

\* Variant: the composite always puts the first argument first.
CompositeFirstArgumentFirst(doc1, doc2) ==
  Join(<<RecentMarker(TimeOf(doc1)), ContentOf(doc1), Separator, ContentOf(doc2),
         EarlierMarker(TimeOf(doc2)), <<>>, NoteMerged, NoteEdit>>)

Composite(doc1, doc2) ==
  LET content1 == ContentOf(doc1)
      content2 == ContentOf(doc2)
      time1 == TimeOf(doc1)
      time2 == TimeOf(doc2)
  IN
  IF time1 > time2
  THEN Join(<<RecentMarker(time1), content1, Separator, content2,
              EarlierMarker(time2), <<>>, NoteMerged, NoteEdit>>)
  ELSE Join(<<RecentMarker(time2), content2, Separator, content1,
              EarlierMarker(time1), <<>>, NoteMerged, NoteEdit>>)

\* Variant: the merge is the first version's body.
mergeContentFirstWins(doc1, doc2) == ContentOf(doc1)

\* Variant: the identity tier compares and returns the trimmed contents.
mergeContentTrimmedIdentity(doc1, doc2) ==
  LET content1 == ContentOf(doc1)
      content2 == ContentOf(doc2)
      lines1 == Split(content1)
      lines2 == Split(content2)
      mergedLines == mergeLinesByContent(lines1, lines2)
  IN
  IF Trim(content1) = Trim(content2) THEN Trim(content1)
  ELSE IF Trim(content1) = <<>> THEN content2
  ELSE IF Trim(content2) = <<>> THEN content1
  ELSE IF \A i \in 1..Len(lines1) : Includes(lines2, lines1[i]) THEN content2
  ELSE IF \A i \in 1..Len(lines2) : Includes(lines1, lines2[i]) THEN content1
  ELSE IF mergedLines # NoMerge THEN Join(mergedLines)
  ELSE Composite(doc1, doc2)

\* Variant: the emptiness tier looks at the second version first.
mergeContentEmptinessSwapped(doc1, doc2) ==
  LET content1 == ContentOf(doc1)
      content2 == ContentOf(doc2)
      lines1 == Split(content1)
      lines2 == Split(content2)
      mergedLines == mergeLinesByContent(lines1, lines2)
  IN
  IF content1 = content2 THEN content1
  ELSE IF Trim(content2) = <<>> THEN content1
  ELSE IF Trim(content1) = <<>> THEN content2
  ELSE IF \A i \in 1..Len(lines1) : Includes(lines2, lines1[i]) THEN content2
  ELSE IF \A i \in 1..Len(lines2) : Includes(lines1, lines2[i]) THEN content1
  ELSE IF mergedLines # NoMerge THEN Join(mergedLines)
  ELSE Composite(doc1, doc2)

\* Variant: the containment tier tests the second version's lines first.
mergeContentContainmentSwapped(doc1, doc2) ==
  LET content1 == ContentOf(doc1)
      content2 == ContentOf(doc2)
      lines1 == Split(content1)
      lines2 == Split(content2)
      mergedLines == mergeLinesByContent(lines1, lines2)
  IN
  IF content1 = content2 THEN content1
  ELSE IF Trim(content1) = <<>> THEN content2
  ELSE IF Trim(content2) = <<>> THEN content1
  ELSE IF \A i \in 1..Len(lines2) : Includes(lines1, lines2[i]) THEN content1
  ELSE IF \A i \in 1..Len(lines1) : Includes(lines2, lines1[i]) THEN content2
  ELSE IF mergedLines # NoMerge THEN Join(mergedLines)
  ELSE Composite(doc1, doc2)

mergeContent(doc1, doc2) ==
  LET content1 == ContentOf(doc1)
      content2 == ContentOf(doc2)
      lines1 == Split(content1)
      lines2 == Split(content2)
      mergedLines == mergeLinesByContent(lines1, lines2)
  IN
  IF content1 = content2 THEN content1
  ELSE IF Trim(content1) = <<>> THEN content2
  ELSE IF Trim(content2) = <<>> THEN content1
  ELSE IF \A i \in 1..Len(lines1) : Includes(lines2, lines1[i]) THEN content2
  ELSE IF \A i \in 1..Len(lines2) : Includes(lines1, lines2[i]) THEN content1
  ELSE IF mergedLines # NoMerge THEN Join(mergedLines)
  ELSE Composite(doc1, doc2)

(***************************************************************************)
(* The local PouchDB store.  Each document id has a revision tree, kept as *)
(* a sequence of revision records; a revision is named by its index.       *)
(*   parent   index of the parent revision, 0 for a root                   *)
(*   gen      generation, the number before the dash of a _rev             *)
(*   hash     rank of the _rev's hash among the revisions of the same      *)
(*            generation (PouchDB breaks ties by comparing hashes)         *)
(*   deleted  a tombstone written by remove                                *)
(* PouchDB keeps every revision body (auto_compaction is off), so a get of *)
(* a known revision always succeeds and always returns the same body.      *)
(***************************************************************************)
DocOrder == <<"x", "y">>
DocIds == {DocOrder[i] : i \in 1..Len(DocOrder)}

\* Every document of the initial store was created empty and then edited
\* once locally, to InitBody.  The remote replica edits the first document
\* by appending a line to that body and the others by replacing the body
\* with an unrelated one; the local user types LocalBodies.
InitBody == <<"a">>
RemoteBodies ==
  [id \in DocIds |->
     IF id = DocOrder[1] THEN {InitBody \o <<NL, "b">>} ELSE {<<"b">>}]
LocalBodies == {<<"c">>}

\* The autoResolveConflicts calls that may be in flight together: a new call
\* takes the first free slot.
PassOrder == <<"call1", "call2">>
Passes == {PassOrder[i] : i \in 1..Len(PassOrder)}

\* Timestamps.  The documents of the initial store carry InitStamp; what
\* the local replica writes afterwards is stamped LocalStamp (a later
\* new Date()); remote edits are stamped RemoteStamp by the remote clock.
InitStamp == 1
LocalStamp == InitStamp + 1
RemoteStamp == LocalStamp + 1

MaxInbound == 2
MaxEdits == 1
MaxPasses == 2

\* The merger's own inputs and result (see MergeSpec below).
VARIABLES mDoc1, mDoc2, mResult, mPc

\* dispatched: the CustomEvents dispatched on window, in order, each with
\* what caused it.
VARIABLES dispatched

\* The document manager's view of the store.  shelf: the regular documents
\* of the store, in the order they were first inserted; calls: the
\* deleteDocument calls in flight; listed: what getAllDocuments returned
\* last.
VARIABLES shelf, calls, listed

\* page: the editor component with the document it has open.
\*   stored           the open document as the store holds it
\*   currentDocument  the component's currentDocument state
\*   content          the text in the editor
\*   isSaved          the component's isSaved state
\*   timer            the 2 s autosave timeout is pending
\*   saving           an autosave awaits DocumentManager.saveDocument
\*   events           'documentsUpdated' events naming the open document
\*                    that are still to be handled
\*   handler          handleDocumentsUpdate: where it is, and the updatedAt
\*                    of the currentDocument it was registered with
\*   clock            the time of the last write to the document
VARIABLES page

deskVars == <<shelf, calls, listed, page>>

MaxCallers == 2
Callers == 1..MaxCallers
IdleCall == [pc |-> "idle", id |-> "none", stale |-> FALSE]

MaxClock == 3
MaxPending == 1

\* The document the editor opens, as stored.
OpenedDocument == [content |-> "first", updatedAt |-> 1]

\* The editor right after handleDocumentSelect: the document is shown as
\* stored and counts as saved.
PageIdle ==
  [stored |-> OpenedDocument, currentDocument |-> OpenedDocument,
   content |-> OpenedDocument.content, isSaved |-> TRUE, timer |-> FALSE,
   saving |-> FALSE, events |-> 0, handler |-> [pc |-> "idle", seen |-> 0],
   clock |-> OpenedDocument.updatedAt]

\* A fresh installation: an empty store, nothing in flight, nothing listed.
DeskIdle ==
  /\ shelf = <<>>
  /\ calls = [c \in Callers |-> IdleCall]
  /\ listed = <<>>
  /\ page = PageIdle

mergeVars == <<mDoc1, mDoc2, mResult, mPc, dispatched, deskVars>>

VARIABLES db, editor, sv, pass, nInbound, nEdits, nPasses, quiet, man

storeVars == <<db, editor, sv, pass, nInbound, nEdits, nPasses, quiet, man>>

VARIABLES cfgEnabled, remoteDB, isOnline, syncStatus, syncError, lastSyncTime,
          syncHandler, session, nSetup, oneshot, pausedPending, lastNotified,
          lastOp, handshake, disabled

syncVars == <<cfgEnabled, remoteDB, isOnline, syncStatus, syncError, lastSyncTime,
              syncHandler, session, nSetup, oneshot, pausedPending, lastNotified,
              lastOp, handshake, disabled>>

Revs(tree) == 1..Len(tree)

Leaves(tree) == {r \in Revs(tree) : \A c \in Revs(tree) : tree[c].parent # r}

LiveLeaves(tree) == {r \in Leaves(tree) : ~tree[r].deleted}

\* winningRev's order: live before deleted, then generation, then hash.
Better(tree, i, j) ==
  \/ ~tree[i].deleted /\ tree[j].deleted
  \/ /\ tree[i].deleted = tree[j].deleted
     /\ \/ tree[i].gen > tree[j].gen
        \/ tree[i].gen = tree[j].gen /\ tree[i].hash > tree[j].hash

Winner(tree) ==
  CHOOSE r \in Leaves(tree) : \A o \in Leaves(tree) \ {r} : Better(tree, r, o)

\* collectConflicts: the live leaves other than the winner, highest first.
RECURSIVE RankedSeq(_, _)
RankedSeq(tree, S) ==
  IF S = {} THEN <<>>
  ELSE LET top == CHOOSE r \in S : \A o \in S \ {r} : Better(tree, r, o)
       IN  <<top>> \o RankedSeq(tree, S \ {top})

ConflictsOf(tree) == RankedSeq(tree, LiveLeaves(tree) \ {Winner(tree)})

\* The document a get returns for a revision.
DocAt(tree, r) ==
  [content |-> tree[r].content, updatedAt |-> tree[r].updatedAt,
   createdAt |-> tree[r].createdAt]

\* The ranks a new revision of generation g may take among its peers.
RanksAt(tree, g) == 1..(Cardinality({r \in Revs(tree) : tree[r].gen = g}) + 1)

\* A new revision under parent, its hash ranked k-th among its generation.
AddRev(tree, parent, k, deleted, content, t) ==
  LET g == IF parent = 0 THEN 1 ELSE tree[parent].gen + 1
      shifted == [r \in Revs(tree) |->
                    IF tree[r].gen = g /\ tree[r].hash >= k
                    THEN [tree[r] EXCEPT !.hash = @ + 1]
                    ELSE tree[r]]
  IN  Append(shifted,
             [parent |-> parent, gen |-> g, hash |-> k, deleted |-> deleted,
              content |-> content, updatedAt |-> t,
              createdAt |-> IF parent = 0 THEN t ELSE tree[parent].createdAt])

\* Variant: a put is accepted whether or not the revision it names is
\* still a leaf.
PutNeverConflicts(tree, rev) == FALSE

\* db.put with _rev rev is refused with 409 unless rev is a current leaf.
PutConflicts(tree, rev) == rev \notin Leaves(tree)

\* db.remove(id, rev): a tombstone under rev, its hash above its peers'.
Tombstone(tree, rev) ==
  AddRev(tree, rev, Cardinality({r \in Revs(tree) : tree[r].gen = tree[rev].gen + 1}) + 1,
         TRUE, <<>>, tree[rev].updatedAt)

\* allDocs({include_docs, conflicts}) filtered on _conflicts: the documents
\* in conflict, in id order, each with its winner and its conflict leaves.
RECURSIVE ConflictRows(_, _)
ConflictRows(store, i) ==
  IF i > Len(DocOrder) THEN <<>>
  ELSE LET id == DocOrder[i]
           tree == store[id]
       IN  (IF LiveLeaves(tree) # {} /\ ConflictsOf(tree) # <<>>
            THEN <<[id |-> id, doc |-> Winner(tree), conflicts |-> ConflictsOf(tree)]>>
            ELSE <<>>)
           \o ConflictRows(store, i + 1)

getConflicts(store) == ConflictRows(store, 1)

(***************************************************************************)
(* State.                                                                  *)
(*   db      the local store: DocIds -> revision tree                      *)
(*   editor  the document object the editor holds: its id and _rev         *)
(*   sv      the DatabaseService.saveDocument call in flight               *)
(*   pass    the autoResolveConflicts calls in flight (the 'change'        *)
(*           handler schedules one, the 'paused' handler runs one)         *)
(* Every await is a point where the other tasks may run.  The gets of the  *)
(* conflict revisions read bodies that never change, so they are taken     *)
(* together with the put that follows them.                                *)
(***************************************************************************)
IdleSave ==
  [pc |-> "idle", id |-> DocOrder[1], base |-> 0, content |-> <<>>,
   existing |-> 0, written |-> 0, outcome |-> "none", settled |-> "none"]

\* conflicts: the rows getConflicts returned; k: the row being resolved;
\* j: the conflict revision to remove next; ok: what autoResolveConflict
\* returned for row k; resolved, writes: how many rows it resolved and how
\* many revisions the call wrote; touched: the documents other writers
\* wrote since the call read its rows; fresh: no remote change arrived
\* since the call began; afterQuiet: the call began after an earlier call
\* had returned, and no remote change arrived since that earlier call began.
IdlePass ==
  [pc |-> "idle", conflicts |-> <<>>, k |-> 0, j |-> 0, ok |-> FALSE,
   merged |-> 0, ret |-> 0, resolved |-> 0, writes |-> 0, touched |-> {},
   fresh |-> FALSE, afterQuiet |-> FALSE]

\* man: the resolveConflict call: the document, the losing revisions it
\* was given, the one to remove next (j) and what it returned (ok).
IdleManual == [pc |-> "idle", id |-> DocOrder[1], losing |-> <<>>, j |-> 0, ok |-> FALSE]

StoreInit ==
  /\ db = [id \in DocIds |->
             AddRev(AddRev(<<>>, 0, 1, FALSE, <<>>, InitStamp),
                    1, 1, FALSE, InitBody, InitStamp)]
  /\ editor = [id |-> DocOrder[1], rev |-> 2]
  /\ sv = IdleSave
  /\ pass = [p \in Passes |-> IdlePass]
  /\ nInbound = 0
  /\ nEdits = 0
  /\ nPasses = 0
  /\ quiet = FALSE
  /\ man = IdleManual

\* Writer `actor` wrote document id: every other running call notes it.
Touch(actor, id) ==
  [p \in Passes |->
     IF p # actor /\ pass[p].pc \notin {"idle", "done"}
     THEN [pass[p] EXCEPT !.touched = @ \cup {id}]
     ELSE pass[p]]

\* An inbound replicated revision (new_edits: false): the remote edited the
\* revision `parent`; the new revision is stored whether or not parent is
\* still a leaf, so it may open a conflict.  Every running call, and the
\* record of the last returned call, notes that a remote change arrived.
Replicate(id, parent, k, body, t) ==
  /\ nInbound < MaxInbound
  /\ parent \in Revs(db[id]) /\ ~db[id][parent].deleted
  /\ k \in RanksAt(db[id], db[id][parent].gen + 1)
  /\ db' = [db EXCEPT ![id] = AddRev(@, parent, k, FALSE, body, t)]
  /\ nInbound' = nInbound + 1
  /\ pass' = [p \in Passes |->
                [Touch("remote", id)[p] EXCEPT !.fresh = FALSE, !.afterQuiet = FALSE]]
  /\ quiet' = FALSE
  /\ UNCHANGED <<editor, sv, nEdits, nPasses>>
  /\ UNCHANGED <<man, mergeVars, syncVars>>

\* The editor holds no document object that a later save could read.
NoDocument == [id |-> DocOrder[1], rev |-> 0]

\* A 'change' of the pull direction: any remote edit of any known revision.
Inbound ==
  \E id \in DocIds, body \in UNION {RemoteBodies[d] : d \in DocIds} :
    \E parent \in Revs(db[id]) :
      \E k \in RanksAt(db[id], db[id][parent].gen + 1) :
        body \in RemoteBodies[id] /\ Replicate(id, parent, k, body, RemoteStamp)

\* The editor (re)loads a document: DocumentManager.getDocument.  What the
\* editor holds is read by saveDocument's caller only, so a load that no
\* save can follow is left out.
EditorLoad(id) ==
  /\ nEdits < MaxEdits
  /\ LiveLeaves(db[id]) # {}
  /\ editor' = [id |-> id, rev |-> Winner(db[id])]
  /\ editor' # editor
  /\ UNCHANGED <<db, sv, pass, nInbound, nEdits, nPasses, quiet>>
  /\ UNCHANGED <<man, mergeVars, syncVars>>

\* saveDocument(document) is called with {...currentDocument, content} and
\* runs up to its first database read, existingDoc = await db.get(docId).
\* After the last save the model allows, what the editor holds is never
\* read again and is dropped from the state.
SaveCall(body) ==
  /\ sv.pc \in {"idle", "done"}
  /\ nEdits < MaxEdits
  /\ editor.rev # 0
  /\ LiveLeaves(db[editor.id]) # {}
  /\ sv' = [IdleSave EXCEPT !.pc = "put", !.id = editor.id,
                            !.base = editor.rev, !.content = body,
                            !.existing = Winner(db[editor.id])]
  /\ nEdits' = nEdits + 1
  /\ editor' = IF nEdits' < MaxEdits THEN editor ELSE NoDocument
  /\ UNCHANGED <<db, pass, nInbound, nPasses, quiet>>
  /\ UNCHANGED <<man, mergeVars, syncVars>>

\* The _rev that saveDocument puts with: `_rev: existingDoc._rev`.
SaveRev(s) == s.existing

\* await db.put(docToSave); a 409 is caught and `document` is returned, so
\* the caller's promise is fulfilled (settled) as it is after a write that
\* went through.
SavePut ==
  /\ sv.pc = "put"
  /\ LET tree == db[sv.id]
     IN  IF PutConflicts(tree, SaveRev(sv))
         THEN /\ sv' = [IdleSave EXCEPT !.pc = "done", !.outcome = "swallowed",
                                         !.settled = "fulfilled"]
              /\ UNCHANGED <<db, pass>>
         ELSE \E k \in RanksAt(tree, tree[SaveRev(sv)].gen + 1) :
                /\ db' = [db EXCEPT ![sv.id] =
                            AddRev(tree, SaveRev(sv), k, FALSE, sv.content, LocalStamp)]
                /\ sv' = [sv EXCEPT !.pc = "reget", !.outcome = "saved",
                                    !.written = Len(tree) + 1,
                                    !.content = <<>>, !.existing = 0]
                /\ pass' = Touch("editor", sv.id)
  /\ UNCHANGED <<editor, nInbound, nEdits, nPasses, quiet>>
  /\ UNCHANGED <<man, mergeVars, syncVars>>

\* return await db.get(response.id); the caller keeps it as currentDocument.
SaveReget ==
  /\ sv.pc = "reget"
  /\ sv' = [IdleSave EXCEPT !.pc = "done", !.outcome = sv.outcome,
                             !.settled = "fulfilled"]
  /\ editor' = IF nEdits < MaxEdits
               THEN [id |-> sv.id, rev |-> Winner(db[sv.id])]
               ELSE NoDocument
  /\ UNCHANGED <<db, pass, nInbound, nEdits, nPasses, quiet>>
  /\ UNCHANGED <<man, mergeVars, syncVars>>

\* autoResolveConflicts begins: conflicts = await this.getConflicts().
\* With no row the loop is skipped and the call returns 0 at once.
PassStart(p) ==
  /\ pass[p].pc \in {"idle", "done"}
  /\ \A i \in 1..Len(PassOrder) :
       (PassOrder[i] = p) => \A h \in 1..(i - 1) :
                               pass[PassOrder[h]].pc \notin {"idle", "done"}
  /\ nPasses < MaxPasses
  /\ nPasses' = nPasses + 1
  /\ LET rows == getConflicts(db)
     IN  IF rows = <<>>
         THEN /\ pass' = [pass EXCEPT ![p] =
                            [IdlePass EXCEPT !.pc = "done", !.afterQuiet = quiet]]
              /\ quiet' = TRUE
         ELSE /\ pass' = [pass EXCEPT ![p] =
                            [IdlePass EXCEPT !.pc = "put", !.conflicts = rows,
                                             !.k = 1, !.fresh = TRUE,
                                             !.afterQuiet = quiet]]
              /\ quiet' = quiet
  /\ UNCHANGED <<db, editor, sv, nInbound, nEdits>>
  /\ UNCHANGED <<man, mergeVars, syncVars>>

\* The row autoResolveConflict is working on.
Row(p) == pass[p].conflicts[pass[p].k]

\* Variant: the resolution keeps the winner's body as it is.
MergedBodyWinnerOnly(tree, row) == ContentOf(DocAt(tree, row.doc))

\* mergeContent(currentDoc, conflictVersions[0]): the winner of the row and
\* the first conflict revision loaded.
MergedBody(tree, row) ==
  mergeContent(DocAt(tree, row.doc), DocAt(tree, row.conflicts[1]))

\* Variant: only the conflict revision that was merged is removed.
RevsToRemoveMergedOnly(row) == <<row.conflicts[1]>>

\* `for (const rev of conflict.conflicts)`: the revisions removed after the put.
RevsToRemove(row) == row.conflicts

\* autoResolveConflict up to `await this.localDB.put(resolvedDoc)`.  The
\* resolved document is {...currentDoc}, so it is put with the winner's
\* _rev as read by getConflicts; a 409 lands in the catch (returns false).
PassPut(p) ==
  /\ pass[p].pc = "put"
  /\ LET row == Row(p)
         tree == db[row.id]
     IN  IF PutConflicts(tree, row.doc)
         THEN /\ pass' = [pass EXCEPT ![p].pc = "settled", ![p].ok = FALSE,
                                       ![p].j = 0, ![p].merged = 0]
              /\ UNCHANGED db
         ELSE \E k \in RanksAt(tree, tree[row.doc].gen + 1) :
                /\ db' = [db EXCEPT ![row.id] =
                            AddRev(tree, row.doc, k, FALSE, MergedBody(tree, row), LocalStamp)]
                /\ pass' = [Touch(p, row.id) EXCEPT
                              ![p].pc = "remove", ![p].j = 1,
                              ![p].merged = Len(tree) + 1,
                              ![p].writes = @ + 1]
  /\ UNCHANGED <<editor, sv, nInbound, nEdits, nPasses, quiet>>
  /\ UNCHANGED <<man, mergeVars, syncVars>>

\* One turn of the removal loop: await this.localDB.remove(conflict.id, rev),
\* a 409 is caught and logged.  After the last turn autoResolveConflict
\* returns true.
PassRemove(p) ==
  /\ pass[p].pc = "remove"
  /\ LET row == Row(p)
         tree == db[row.id]
         revs == RevsToRemove(row)
         rev == revs[pass[p].j]
         last == pass[p].j = Len(revs)
         step(ps, wrote) ==
           [ps EXCEPT ![p].j = IF last THEN 0 ELSE @ + 1,
                      ![p].writes = @ + wrote,
                      ![p].pc = IF last THEN "settled" ELSE "remove",
                      ![p].ok = last,
                      ![p].resolved = IF last THEN @ + 1 ELSE @]
     IN  IF PutConflicts(tree, rev)
         THEN /\ pass' = step(pass, 0)
              /\ UNCHANGED db
         ELSE /\ db' = [db EXCEPT ![row.id] = Tombstone(tree, rev)]
              /\ pass' = step(Touch(p, row.id), 1)
  /\ UNCHANGED <<editor, sv, nInbound, nEdits, nPasses, quiet>>
  /\ UNCHANGED <<man, mergeVars, syncVars>>

\* The number autoResolveConflicts returns.
Returned(conflicts) == Len(conflicts)

\* autoResolveConflict has returned: the loop goes to the next row, or
\* autoResolveConflicts returns.
PassAdvance(p) ==
  /\ pass[p].pc = "settled"
  /\ IF pass[p].k < Len(pass[p].conflicts)
     THEN /\ pass' = [pass EXCEPT ![p].pc = "put", ![p].k = @ + 1,
                                  ![p].ok = FALSE, ![p].merged = 0]
          /\ quiet' = quiet
     ELSE /\ pass' = [pass EXCEPT ![p] =
                        [IdlePass EXCEPT !.pc = "done",
                                         !.ret = Returned(pass[p].conflicts),
                                         !.resolved = pass[p].resolved,
                                         !.writes = pass[p].writes,
                                         !.afterQuiet = pass[p].afterQuiet]]
          /\ quiet' = (quiet \/ pass[p].fresh)
  /\ UNCHANGED <<db, editor, sv, nInbound, nEdits, nPasses>>
  /\ UNCHANGED <<man, mergeVars, syncVars>>

(***************************************************************************)
(* The replication coordinator: SyncService's status fields, its           *)
(* continuous sessions and its one-shot operations.                        *)
(*   cfgEnabled     config.syncEnabled && config.couchdbUrl                *)
(*   remoteDB       this.remoteDB is set                                   *)
(*   syncHandler    the session this.syncHandler refers to, 0 for null     *)
(*   session        the PouchDB sync objects: slot -> [st, phase]; st is   *)
(*                  "none" (no object), "live", "cancelled" (cancel() was  *)
(*                  called, its 'complete' event is still to come) or      *)
(*                  "dead" (ended by a fatal error)                        *)
(*   nSetup         setupSync calls awaiting testConnection                *)
(*   oneshot        the forceSync / push / pull awaiting its result        *)
(*   pausedPending  'paused' handlers awaiting autoResolveConflicts        *)
(*   lastNotified   per listener, the status its callback last received    *)
(* lastOp names the handler that ran last; handshake is the outcome of the *)
(* latest setupSync; disabled says sync was stopped and not enabled since. *)
(***************************************************************************)
MaxSessions == 2
MaxSetups == 2
MaxTicks == 1
MaxPaused == 1
MaxListeners == 2

Sessions == 1..MaxSessions
NoError == "null"
NoSession == [st |-> "none", phase |-> "idle"]
OneShots == {"forceSync", "pushToRemote", "pullFromRemote"}

\* new Date().toISOString(): a later time than the one held (counted up to MaxTicks).
Now(t) == IF t < MaxTicks THEN t + 1 ELSE t

\* getStatus() over the given field values.
StatusOf(status, online, time, error, remote) ==
  [status |-> status, isOnline |-> online, lastSyncTime |-> time,
   error |-> error, isConnected |-> remote]

getStatus == StatusOf(syncStatus, isOnline, lastSyncTime, syncError, remoteDB)

\* The registered callbacks in the order they were added; the first one
\* throws whenever it is called.
Listeners == 1..MaxListeners
Throwing == {1}
NeverNotified(status) == [l \in Listeners |-> status]

\* Variant: no try/catch around the callback, so the first callback that
\* throws ends the forEach.
RECURSIVE DeliverUntilThrow(_, _, _)
DeliverUntilThrow(received, status, l) ==
  IF l > MaxListeners THEN received
  ELSE LET called == [received EXCEPT ![l] = status]
       IN  IF l \in Throwing THEN called
           ELSE DeliverUntilThrow(called, status, l + 1)

\* listeners.forEach from the l-th callback on: the callback is called with
\* the status inside try/catch, so whether it throws or not the next one is
\* called.
RECURSIVE Deliver(_, _, _)
Deliver(received, status, l) ==
  IF l > MaxListeners THEN received
  ELSE LET called == [received EXCEPT ![l] = status]
       IN  IF l \in Throwing
           THEN Deliver(called, status, l + 1)   \* caught and logged
           ELSE Deliver(called, status, l + 1)

\* notifyListeners(): every listener receives getStatus() as it is after
\* the handler's assignments.
notifyListeners ==
  lastNotified' = Deliver(lastNotified,
                          StatusOf(syncStatus', isOnline', lastSyncTime', syncError', remoteDB'), 1)

SyncIdle ==
  /\ cfgEnabled = FALSE
  /\ remoteDB = FALSE
  /\ isOnline = TRUE
  /\ syncStatus = "disconnected"
  /\ syncError = NoError
  /\ lastSyncTime = 0
  /\ syncHandler = 0
  /\ session = [s \in Sessions |-> NoSession]
  /\ nSetup = 0
  /\ oneshot = "none"
  /\ pausedPending = 0
  /\ lastNotified = NeverNotified(StatusOf("disconnected", TRUE, 0, NoError, FALSE))
  /\ lastOp = "constructor"
  /\ handshake = "none"
  /\ disabled = FALSE

\* Variant: stopSync forgets the handle without cancelling it.
CancelNothing(sess, h) == sess

\* this.syncHandler.cancel(): a live session is cancelled and will still
\* emit 'complete'; cancelling an ended session does nothing.
Cancel(sess, h) ==
  IF h = 0 THEN sess
  ELSE [sess EXCEPT ![h] = IF @.st = "live" THEN [st |-> "cancelled", phase |-> "idle"]
                           ELSE NoSession]

\* stopSync(), up to its notifyListeners.
stopSync ==
  /\ session' = Cancel(session, syncHandler)
  /\ syncHandler' = 0
  /\ syncStatus' = "disconnected"
  /\ syncError' = NoError

\* startContinuousSync() with the given isOnline: nothing without a remote
\* or offline; else this.syncHandler = localDB.sync(remoteDB, {live, retry}),
\* whatever this.syncHandler referred to before.
FreeSlots(sess) == {s \in Sessions : sess[s].st = "none"}

\* Variant: startContinuousSync never opens a session.
startNothing(online) == UNCHANGED <<session, syncHandler>>

startContinuousSync(online) ==
  IF ~remoteDB' \/ ~online
  THEN UNCHANGED <<session, syncHandler>>
  ELSE LET dropped == IF syncHandler # 0 /\ session[syncHandler].st = "dead"
                      THEN [session EXCEPT ![syncHandler] = NoSession]
                      ELSE session
       IN  /\ FreeSlots(dropped) # {}
           /\ LET s == CHOOSE f \in FreeSlots(dropped) : \A g \in FreeSlots(dropped) : f <= g
              IN  /\ session' = [dropped EXCEPT ![s] = [st |-> "live", phase |-> "active"]]
                  /\ syncHandler' = s

\* setupSync(url) up to `await this.testConnection()`; the notification is
\* the one stopSync sends, before the new remote is assigned.
SetupCall ==
  /\ nSetup < MaxSetups
  /\ stopSync
  /\ remoteDB' = TRUE
  /\ nSetup' = nSetup + 1
  /\ handshake' = "pending"
  /\ disabled' = FALSE
  /\ lastNotified' = Deliver(lastNotified,
                             StatusOf(syncStatus', isOnline', lastSyncTime', syncError', remoteDB), 1)

\* handleConfigChange with sync enabled and a URL: setupSync is called.
ConfigEnable ==
  /\ cfgEnabled' = TRUE
  /\ UNCHANGED <<isOnline, lastSyncTime, oneshot, pausedPending>>
  /\ SetupCall
  /\ lastOp' = "handleConfigChange(enabled)"
  /\ UNCHANGED <<storeVars, mergeVars>>

\* handleConfigChange with sync disabled: stopSync.
ConfigDisable ==
  /\ cfgEnabled' = FALSE
  /\ stopSync
  /\ disabled' = TRUE
  /\ lastOp' = "handleConfigChange(disabled)"
  /\ UNCHANGED <<remoteDB, isOnline, lastSyncTime, nSetup, oneshot, pausedPending, handshake>>
  /\ notifyListeners
  /\ UNCHANGED <<storeVars, mergeVars>>

\* stopSync() called on the service.
StopSync ==
  /\ stopSync
  /\ disabled' = TRUE
  /\ lastOp' = "stopSync"
  /\ UNCHANGED <<cfgEnabled, remoteDB, isOnline, lastSyncTime, nSetup, oneshot,
                 pausedPending, handshake>>
  /\ notifyListeners
  /\ UNCHANGED <<storeVars, mergeVars>>

\* setupSync resumes with a connection test that passed.
SetupConnected ==
  /\ nSetup > 0
  /\ nSetup' = nSetup - 1
  /\ UNCHANGED <<cfgEnabled, remoteDB, isOnline, lastSyncTime, oneshot, pausedPending, disabled>>
  /\ startContinuousSync(isOnline)
  /\ syncStatus' = "connected"
  /\ syncError' = NoError
  /\ handshake' = "ok"
  /\ lastOp' = "setupSync(connected)"
  /\ notifyListeners
  /\ UNCHANGED <<storeVars, mergeVars>>

\* setupSync resumes with a connection test that failed: the catch block.
SetupFailed ==
  /\ nSetup > 0
  /\ nSetup' = nSetup - 1
  /\ syncStatus' = "error"
  /\ syncError' = "Failed to connect to CouchDB"
  /\ handshake' = "failed"
  /\ lastOp' = "setupSync(failed)"
  /\ UNCHANGED <<cfgEnabled, remoteDB, isOnline, lastSyncTime, syncHandler, session,
                 oneshot, pausedPending, disabled>>
  /\ notifyListeners
  /\ UNCHANGED <<storeVars, mergeVars>>

\* handleOnline(): no status change and no notification.
Online ==
  /\ ~isOnline
  /\ isOnline' = TRUE
  /\ UNCHANGED <<cfgEnabled, remoteDB, syncStatus, syncError, lastSyncTime, nSetup,
                 oneshot, pausedPending, lastNotified, handshake, disabled>>
  /\ IF cfgEnabled THEN startContinuousSync(TRUE) ELSE UNCHANGED <<session, syncHandler>>
  /\ lastOp' = "handleOnline"
  /\ UNCHANGED <<storeVars, mergeVars>>

\* handleOffline().
Offline ==
  /\ isOnline
  /\ isOnline' = FALSE
  /\ syncStatus' = "offline"
  /\ lastOp' = "handleOffline"
  /\ UNCHANGED <<cfgEnabled, remoteDB, syncError, lastSyncTime, syncHandler, session,
                 nSetup, oneshot, pausedPending, handshake, disabled>>
  /\ notifyListeners
  /\ UNCHANGED <<storeVars, mergeVars>>

\* Fields every session event handler leaves alone.
EventFrame ==
  /\ UNCHANGED <<cfgEnabled, remoteDB, isOnline, syncHandler, nSetup, oneshot,
                 handshake, disabled>>
  /\ UNCHANGED <<storeVars, mergeVars>>

\* The status the 'active' handler sets.
StatusOnActive == "syncing"

\* 'change': a batch was replicated in a live session's round.
SessionChange(s) ==
  /\ session[s] = [st |-> "live", phase |-> "active"]
  /\ lastSyncTime' = Now(lastSyncTime)
  /\ syncStatus' = "syncing"
  /\ lastOp' = "change"
  /\ UNCHANGED <<syncError, session, pausedPending>>
  /\ EventFrame
  /\ notifyListeners

\* 'paused' without an error: the session caught up.  The handler sets the
\* status and then awaits autoResolveConflicts before it notifies.
SessionPaused(s) ==
  /\ session[s] = [st |-> "live", phase |-> "active"]
  /\ pausedPending < MaxPaused
  /\ session' = [session EXCEPT ![s].phase = "paused"]
  /\ syncStatus' = "up-to-date"
  /\ syncError' = NoError
  /\ pausedPending' = pausedPending + 1
  /\ lastOp' = "paused"
  /\ UNCHANGED <<lastSyncTime, lastNotified>>
  /\ EventFrame

\* The 'paused' handler resumes after autoResolveConflicts: notifyListeners.
PausedNotify ==
  /\ pausedPending > 0
  /\ pausedPending' = pausedPending - 1
  /\ lastOp' = "paused(resumed)"
  /\ UNCHANGED <<syncStatus, syncError, lastSyncTime, session>>
  /\ EventFrame
  /\ notifyListeners

\* 'paused' with an error: a round failed on the transport; with
\* retry: true the session backs off and will try again.
SessionTransportFails(s) ==
  /\ session[s].st = "live" /\ session[s].phase \in {"active", "paused"}
  /\ session' = [session EXCEPT ![s].phase = "backoff"]
  /\ syncStatus' = "error"
  /\ syncError' = "transport"
  /\ lastOp' = "paused(err)"
  /\ UNCHANGED <<lastSyncTime, pausedPending>>
  /\ EventFrame
  /\ notifyListeners

\* The transport comes back while a session is backed off: its next retry
\* will get through.  Until then every retry fails, the session backs off
\* again and emits nothing, so no handler runs.
TransportRestored(s) ==
  /\ session[s] = [st |-> "live", phase |-> "backoff"]
  /\ session' = [session EXCEPT ![s].phase = "retry"]
  /\ lastOp' = "transport restored"
  /\ UNCHANGED <<syncStatus, syncError, lastSyncTime, pausedPending, lastNotified>>
  /\ EventFrame

\* 'active': the session replicates again, after a pause or after a retry
\* that got through.
SessionActive(s) ==
  /\ session[s].st = "live" /\ session[s].phase \in {"paused", "retry"}
  /\ session' = [session EXCEPT ![s].phase = "active"]
  /\ syncStatus' = StatusOnActive
  /\ syncError' = NoError
  /\ lastOp' = "active"
  /\ UNCHANGED <<lastSyncTime, pausedPending>>
  /\ EventFrame
  /\ notifyListeners

\* 'denied': the remote refused a document; the session goes on.
SessionDenied(s) ==
  /\ session[s] = [st |-> "live", phase |-> "active"]
  /\ syncStatus' = "error"
  /\ syncError' = "Access denied"
  /\ lastOp' = "denied"
  /\ UNCHANGED <<lastSyncTime, session, pausedPending>>
  /\ EventFrame
  /\ notifyListeners

\* 'error': the session ended on an error it does not retry.
SessionError(s) ==
  /\ session[s].st = "live"
  /\ session' = [session EXCEPT ![s] = IF s = syncHandler THEN [st |-> "dead", phase |-> "idle"]
                                        ELSE NoSession]
  /\ syncStatus' = "error"
  /\ syncError' = "fatal"
  /\ lastOp' = "error"
  /\ UNCHANGED <<lastSyncTime, pausedPending>>
  /\ EventFrame
  /\ notifyListeners

\* 'complete': a cancelled session has wound up.
SessionComplete(s) ==
  /\ session[s].st = "cancelled"
  /\ session' = [session EXCEPT ![s] = NoSession]
  /\ syncStatus' = "complete"
  /\ lastSyncTime' = Now(lastSyncTime)
  /\ lastOp' = "complete"
  /\ UNCHANGED <<syncError, pausedPending>>
  /\ EventFrame
  /\ notifyListeners

\* Variant: the one-shot operations start without checking for a remote or
\* for connectivity.
OneShotCallUnguarded(kind) ==
  /\ oneshot = "none"
  /\ UNCHANGED <<cfgEnabled, remoteDB, isOnline, syncError, lastSyncTime, syncHandler,
                 session, nSetup, pausedPending, handshake, disabled>>
  /\ lastOp' = kind
  /\ syncStatus' = "syncing"
  /\ oneshot' = kind
  /\ notifyListeners
  /\ UNCHANGED <<storeVars, mergeVars>>

\* forceSync / pushToRemote / pullFromRemote up to the await; without a
\* remote or offline the call throws before it touches anything.
OneShotCall(kind) ==
  /\ oneshot = "none"
  /\ UNCHANGED <<cfgEnabled, remoteDB, isOnline, syncError, lastSyncTime, syncHandler,
                 session, nSetup, pausedPending, handshake, disabled>>
  /\ IF ~remoteDB \/ ~isOnline
     THEN /\ lastOp' = "refused"
          /\ UNCHANGED <<syncStatus, oneshot, lastNotified>>
     ELSE /\ lastOp' = kind
          /\ syncStatus' = "syncing"
          /\ oneshot' = kind
          /\ notifyListeners
  /\ UNCHANGED <<storeVars, mergeVars>>

\* The one-shot replication resolved; only forceSync clears syncError.
OneShotDone ==
  /\ oneshot # "none"
  /\ oneshot' = "none"
  /\ lastSyncTime' = Now(lastSyncTime)
  /\ syncStatus' = "up-to-date"
  /\ syncError' = IF oneshot = "forceSync" THEN NoError ELSE syncError
  /\ lastOp' = "oneshot(done)"
  /\ UNCHANGED <<cfgEnabled, remoteDB, isOnline, syncHandler, session, nSetup,
                 pausedPending, handshake, disabled>>
  /\ notifyListeners
  /\ UNCHANGED <<storeVars, mergeVars>>

\* The one-shot replication rejected: the catch block.
OneShotFailed ==
  /\ oneshot # "none"
  /\ oneshot' = "none"
  /\ syncStatus' = "error"
  /\ syncError' = "oneshot"
  /\ lastOp' = "oneshot(failed)"
  /\ UNCHANGED <<cfgEnabled, remoteDB, isOnline, lastSyncTime, syncHandler, session,
                 nSetup, pausedPending, handshake, disabled>>
  /\ notifyListeners
  /\ UNCHANGED <<storeVars, mergeVars>>

(***************************************************************************)
(* The merger on its own: two versions are drawn and merged.               *)
(***************************************************************************)
\* Timestamps <<updatedAt, createdAt>> of the first version: absent, from
\* createdAt only, earlier than, equal to and later than the second
\* version's, which is Doc2Stamp.
Doc1Stamps == {<<0, 0>>, <<0, 1>>, <<1, 0>>, <<2, 0>>, <<3, 0>>}
Doc2Stamp == <<2, 1>>

MergeInit ==
  /\ mDoc1 \in {[content |-> b, updatedAt |-> s[1], createdAt |-> s[2]] :
                  b \in Bodies, s \in Doc1Stamps}
  /\ mDoc2 \in {[content |-> b, updatedAt |-> Doc2Stamp[1], createdAt |-> Doc2Stamp[2]] :
                  b \in Bodies}
  /\ mResult = <<>>
  /\ mPc = "ready"
  /\ dispatched = <<>>
  /\ DeskIdle
  /\ StoreInit
  /\ SyncIdle

MergeIdle ==
  /\ mDoc1 = [content |-> <<>>, updatedAt |-> 0, createdAt |-> 0]
  /\ mDoc2 = [content |-> <<>>, updatedAt |-> Doc2Stamp[1], createdAt |-> Doc2Stamp[2]]
  /\ mResult = <<>>
  /\ mPc = "merged"
  /\ dispatched = <<>>
  /\ DeskIdle

MergeStep ==
  /\ mPc = "ready"
  /\ mResult' = mergeContent(mDoc1, mDoc2)
  /\ mPc' = "merged"
  /\ UNCHANGED <<mDoc1, mDoc2, dispatched, deskVars>>
  /\ UNCHANGED <<storeVars, syncVars>>

vars == <<storeVars, mergeVars, syncVars>>

MergeSpec == MergeInit /\ [][MergeStep]_vars

(***************************************************************************)
(* The merger on bodies of several lines: each body is a sequence of up to *)
(* MaxLines lines drawn from Lines (an empty line and two one-letter       *)
(* lines), the first version older than the second.                        *)
(***************************************************************************)
Lines == {<<>>, <<"a">>, <<"b">>}
MaxLines == 5

RECURSIVE LineSeqsUpTo(_)
LineSeqsUpTo(n) ==
  IF n = 0 THEN {<<>>}
  ELSE LET shorter == LineSeqsUpTo(n - 1)
       IN  shorter \cup {Append(ls, l) : ls \in {t \in shorter : Len(t) = n - 1}, l \in Lines}

LineBodies == {Join(ls) : ls \in LineSeqsUpTo(MaxLines) \ {<<>>}}

LineMergeInit ==
  /\ mDoc1 \in {[content |-> b, updatedAt |-> 1, createdAt |-> 1] : b \in LineBodies}
  /\ mDoc2 \in {[content |-> b, updatedAt |-> Doc2Stamp[1], createdAt |-> Doc2Stamp[2]] :
                  b \in LineBodies}
  /\ mResult = <<>>
  /\ mPc = "ready"
  /\ dispatched = <<>>
  /\ DeskIdle
  /\ StoreInit
  /\ SyncIdle

LineMergeSpec == LineMergeInit /\ [][MergeStep]_vars

\* The constructor: status 'disconnected'; initializeSync calls setupSync
\* when the stored configuration enables sync.
SyncInit ==
  /\ cfgEnabled \in BOOLEAN
  /\ remoteDB = cfgEnabled
  /\ isOnline \in BOOLEAN
  /\ syncStatus = "disconnected"
  /\ syncError = NoError
  /\ lastSyncTime = 0
  /\ syncHandler = 0
  /\ session = [s \in Sessions |-> NoSession]
  /\ nSetup = IF cfgEnabled THEN 1 ELSE 0
  /\ oneshot = "none"
  /\ pausedPending = 0
  /\ lastNotified = NeverNotified(StatusOf("disconnected", isOnline, 0, NoError, FALSE))
  /\ lastOp = "constructor"
  /\ handshake = IF cfgEnabled THEN "pending" ELSE "none"
  /\ disabled = FALSE
  /\ StoreInit
  /\ MergeIdle

SyncNext ==
  \/ ConfigEnable
  \/ ConfigDisable
  \/ StopSync
  \/ SetupConnected
  \/ SetupFailed
  \/ Online
  \/ Offline
  \/ \E s \in Sessions : SessionChange(s)
  \/ \E s \in Sessions : SessionPaused(s)
  \/ PausedNotify
  \/ \E s \in Sessions : SessionTransportFails(s)
  \/ \E s \in Sessions : TransportRestored(s)
  \/ \E s \in Sessions : SessionActive(s)
  \/ \E s \in Sessions : SessionDenied(s)
  \/ \E s \in Sessions : SessionError(s)
  \/ \E s \in Sessions : SessionComplete(s)
  \/ \E kind \in OneShots : OneShotCall(kind)
  \/ OneShotDone
  \/ OneShotFailed

SyncSpec == SyncInit /\ [][SyncNext]_vars

\* The coordinator with continuous replication established: setupSync has
\* connected and sync is not enabled anew.
ConnectedInit ==
  /\ cfgEnabled = TRUE
  /\ remoteDB = TRUE
  /\ isOnline = TRUE
  /\ syncStatus = "connected"
  /\ syncError = NoError
  /\ lastSyncTime = 0
  /\ syncHandler = 1
  /\ session = [s \in Sessions |-> IF s = 1 THEN [st |-> "live", phase |-> "active"]
                                   ELSE NoSession]
  /\ nSetup = 0
  /\ oneshot = "none"
  /\ pausedPending = 0
  /\ lastNotified = NeverNotified(StatusOf("connected", TRUE, 0, NoError, TRUE))
  /\ lastOp = "setupSync(connected)"
  /\ handshake = "ok"
  /\ disabled = FALSE
  /\ StoreInit
  /\ MergeIdle

ConnectedNext ==
  \/ ConfigDisable
  \/ StopSync
  \/ Online
  \/ Offline
  \/ \E s \in Sessions : SessionChange(s)
  \/ \E s \in Sessions : SessionPaused(s)
  \/ PausedNotify
  \/ \E s \in Sessions : SessionTransportFails(s)
  \/ \E s \in Sessions : TransportRestored(s)
  \/ \E s \in Sessions : SessionActive(s)
  \/ \E s \in Sessions : SessionDenied(s)
  \/ \E s \in Sessions : SessionError(s)
  \/ \E s \in Sessions : SessionComplete(s)
  \/ \E kind \in OneShots : OneShotCall(kind)
  \/ OneShotDone
  \/ OneShotFailed

\* A live session's round ends: it has caught up ('paused') or it failed on
\* the transport ('paused' with the error).
RoundEnds(s) ==
  /\ session[s].phase = "active"
  /\ (SessionPaused(s) \/ SessionTransportFails(s))

\* PouchDB delivers the events it has due and, with retry: true, keeps
\* retrying a failed round; pending handlers resume.  Whether the transport
\* comes back is not the program's to decide.
SyncFairness ==
  /\ \A s \in Sessions : WF_vars(SessionActive(s))
  /\ \A s \in Sessions : WF_vars(RoundEnds(s))
  /\ \A s \in Sessions : WF_vars(SessionComplete(s))
  /\ WF_vars(PausedNotify)
  /\ WF_vars(OneShotDone \/ OneShotFailed)

FairSyncSpec == ConnectedInit /\ [][ConnectedNext]_vars /\ SyncFairness

\* resolveConflict(docId, winningRev, losingRevs) is called for a document
\* getConflicts lists, with its conflict revisions as the losing ones.
ManualStart ==
  /\ man.pc = "idle"
  /\ \E i \in 1..Len(getConflicts(db)) :
       LET row == getConflicts(db)[i]
       IN  man' = [pc |-> "remove", id |-> row.id, losing |-> row.conflicts,
                   j |-> 1, ok |-> FALSE]
  /\ UNCHANGED <<db, editor, sv, pass, nInbound, nEdits, nPasses, quiet>>
  /\ UNCHANGED <<mergeVars, syncVars>>

\* One turn of `for (const rev of losingRevs) await localDB.remove(docId, rev)`:
\* a 409 leaves the loop for the catch block, which returns false; after the
\* last turn the call returns true.
ManualRemove ==
  /\ man.pc = "remove"
  /\ LET tree == db[man.id]
         rev == man.losing[man.j]
         last == man.j = Len(man.losing)
     IN  IF PutConflicts(tree, rev)
         THEN /\ man' = [man EXCEPT !.pc = "done", !.ok = FALSE]
              /\ UNCHANGED <<db, pass>>
         ELSE /\ db' = [db EXCEPT ![man.id] = Tombstone(tree, rev)]
              /\ pass' = Touch("manual", man.id)
              /\ man' = [man EXCEPT !.pc = IF last THEN "done" ELSE "remove",
                                    !.j = IF last THEN @ ELSE @ + 1,
                                    !.ok = last]
  /\ UNCHANGED <<editor, sv, nInbound, nEdits, nPasses, quiet>>
  /\ UNCHANGED <<mergeVars, syncVars>>

\* Manual resolution beside inbound replication and automatic resolution.
ManualInit == StoreInit /\ MergeIdle /\ SyncIdle

ManualNext ==
  \/ Inbound
  \/ ManualStart
  \/ ManualRemove
  \/ \E p \in Passes : PassStart(p)
  \/ \E p \in Passes : PassPut(p)
  \/ \E p \in Passes : PassRemove(p)
  \/ \E p \in Passes : PassAdvance(p)

ManualSpec == ManualInit /\ [][ManualNext]_vars

\* Variant: the 'change' handler schedules no resolution pass.
PassNeverDue == FALSE

\* The 'change' handler of a batch has set its 500 ms timer and the timer's
\* autoResolveConflicts has not begun: fewer passes began than batches came.
PassDue == nPasses < nInbound

\* The timer a 'change' event set fires: autoResolveConflicts begins.
TimedPassStart(p) == PassDue /\ PassStart(p)

\* Inbound batches, each followed by the resolution pass its 'change' event
\* schedules; the timers fire and the passes' awaits return.
ChangeInit == StoreInit /\ MergeIdle /\ SyncIdle

ChangeNext ==
  \/ Inbound
  \/ \E p \in Passes : TimedPassStart(p)
  \/ \E p \in Passes : PassPut(p)
  \/ \E p \in Passes : PassRemove(p)
  \/ \E p \in Passes : PassAdvance(p)

ChangeFairness ==
  /\ WF_vars(\E p \in Passes : TimedPassStart(p))
  /\ \A p \in Passes : WF_vars(PassPut(p) \/ PassRemove(p) \/ PassAdvance(p))

ChangeSpec == ChangeInit /\ [][ChangeNext]_vars /\ ChangeFairness

(***************************************************************************)
(* The window events the coordinator dispatches.                           *)
(***************************************************************************)
MaxEvents == 3

\* The arrays of document ids a batch can carry (info.change.docs).
BatchIds == {<<DocOrder[1]>>, <<DocOrder[2]>>, DocOrder, <<DocOrder[2], DocOrder[1]>>}

\* new CustomEvent('documentsUpdated', {detail: {documentIds}}) of the
\* 'change' handler.
ChangeEvent(ids) == [name |-> "documentsUpdated", detail |-> [documentIds |-> ids]]

\* new CustomEvent('documentsUpdated', {detail: {documentIds: [conflict.id]}})
\* of autoResolveConflict.
MergeEvent(id) == [name |-> "documentsUpdated", detail |-> [documentIds |-> <<id>>]]

\* new CustomEvent('documentsUpdated') after a pass that found conflicts.
RefreshEvent == [name |-> "documentsUpdated", detail |-> "null"]

\* window.dispatchEvent(event), recorded with what caused it.
Dispatched(event, cause) == Append(dispatched, [event |-> event, cause |-> cause])

\* The 'change' handler's timer for a batch with documents.
DispatchChange(ids) ==
  /\ Len(dispatched) < MaxEvents
  /\ dispatched' = Dispatched(ChangeEvent(ids), "change")
  /\ UNCHANGED <<mDoc1, mDoc2, mResult, mPc, deskVars>>
  /\ UNCHANGED <<storeVars, syncVars>>

\* autoResolveConflict's timer after it merged the document.
DispatchMerge(id) ==
  /\ Len(dispatched) < MaxEvents
  /\ dispatched' = Dispatched(MergeEvent(id), "merge")
  /\ UNCHANGED <<mDoc1, mDoc2, mResult, mPc, deskVars>>
  /\ UNCHANGED <<storeVars, syncVars>>

\* The timer set when autoResolveConflicts returned more than 0.
DispatchRefresh ==
  /\ Len(dispatched) < MaxEvents
  /\ dispatched' = Dispatched(RefreshEvent, "refresh")
  /\ UNCHANGED <<mDoc1, mDoc2, mResult, mPc, deskVars>>
  /\ UNCHANGED <<storeVars, syncVars>>

EventInit == StoreInit /\ MergeIdle /\ SyncIdle

EventNext ==
  \/ \E ids \in BatchIds : DispatchChange(ids)
  \/ \E id \in DocIds : DispatchMerge(id)
  \/ DispatchRefresh

EventSpec == EventInit /\ [][EventNext]_vars

(***************************************************************************)
(* The document manager: listing and deleting the store's documents.       *)
(***************************************************************************)
\* The ids of the regular documents, in the collation order db.allDocs
\* returns its rows in.
DeskOrder == <<"doc-1", "doc-2", "welcome">>
DeskIds == {DeskOrder[i] : i \in 1..Len(DeskOrder)}

\* updatedAt values: ISO timestamps, written <<day, hour>>.
Stamps == {<<1, 0>>, <<1, 9>>, <<2, 0>>}

\* new Date(updatedAt) in a subtraction: the timestamp as a number.
DateValue(iso) == iso[1] * 24 + iso[2]

DEFAULT_DOCUMENT == [id |-> "welcome", updatedAt |-> <<1, 0>>]

\* settingsDocumentService.getDocument(): a synthetic document that is not
\* in the store and carries no updatedAt (written <<0, 0>>).
settingsDoc == [id |-> "settings", updatedAt |-> <<0, 0>>]

OnShelf(sh, id) == \E i \in 1..Len(sh) : sh[i].id = id

\* db.allDocs({include_docs: true}) mapped to its docs: the stored documents
\* ordered by id, whatever order they were inserted in.
allDocs(sh) ==
  LET at(id) == sh[CHOOSE i \in 1..Len(sh) : sh[i].id = id]
      rows[k \in 0..Len(DeskOrder)] ==
        IF k = 0 THEN <<>>
        ELSE IF OnShelf(sh, DeskOrder[k]) THEN Append(rows[k - 1], at(DeskOrder[k]))
        ELSE rows[k - 1]
  IN  rows[Len(DeskOrder)]

\* One step of the stable sort with the comparator
\* (a, b) => new Date(b.updatedAt) - new Date(a.updatedAt): d goes behind
\* every document that is not older than it.
InsertByDate(sorted, d) ==
  LET k == Cardinality({i \in 1..Len(sorted) :
                          DateValue(sorted[i].updatedAt) >= DateValue(d.updatedAt)})
  IN  SubSeq(sorted, 1, k) \o <<d>> \o SubSeq(sorted, k + 1, Len(sorted))

\* The sort left out: the documents as allDocs returned them.
Unsorted(docs) == docs

sortByUpdatedAt(docs) ==
  LET done[k \in 0..Len(docs)] ==
        IF k = 0 THEN <<>> ELSE InsertByDate(done[k - 1], docs[k])
  IN  done[Len(docs)]

\* DocumentManager.getAllDocuments: what it returns for a store.
getAllDocuments(sh) ==
  LET documents == IF allDocs(sh) = <<>> THEN <<DEFAULT_DOCUMENT>> ELSE allDocs(sh)
  IN  <<settingsDoc>> \o sortByUpdatedAt(documents)

\* What getAllDocuments leaves in the store: the default document, saved
\* with updatedAt stamped at the save, when the store was empty.
DefaultSaved(sh, stamp) ==
  IF sh = <<>> THEN <<[DEFAULT_DOCUMENT EXCEPT !.updatedAt = stamp]>> ELSE sh

\* saveDocument of a regular document (by this client, or a document
\* arriving by replication): a new document is inserted, an existing one
\* gets a new revision, which outdates the revision a deleteDocument call
\* has read.
Put(id, stamp) ==
  /\ shelf' = IF OnShelf(shelf, id)
              THEN [i \in 1..Len(shelf) |->
                      IF shelf[i].id = id THEN [shelf[i] EXCEPT !.updatedAt = stamp]
                      ELSE shelf[i]]
              ELSE Append(shelf, [id |-> id, updatedAt |-> stamp])
  /\ calls' = [c \in Callers |->
                 IF calls[c].pc = "removing" /\ calls[c].id = id
                 THEN [calls[c] EXCEPT !.stale = TRUE] ELSE calls[c]]
  /\ UNCHANGED listed
  /\ UNCHANGED <<mDoc1, mDoc2, mResult, mPc, dispatched, page>>
  /\ UNCHANGED <<storeVars, syncVars>>

\* A call of DocumentManager.getAllDocuments.
ListCall(stamp) ==
  /\ listed' = getAllDocuments(shelf)
  /\ shelf' = DefaultSaved(shelf, stamp)
  /\ UNCHANGED calls
  /\ UNCHANGED <<mDoc1, mDoc2, mResult, mPc, dispatched, page>>
  /\ UNCHANGED <<storeVars, syncVars>>

\* DocumentManager.deleteDocument(id) up to its await of getAllDocuments;
\* 'settings' is refused at once.
DeleteCall(c, id) ==
  /\ calls[c].pc = "idle"
  /\ calls' = [calls EXCEPT ![c] =
                 IF id = "settings" THEN IdleCall
                 ELSE [pc |-> "listing", id |-> id, stale |-> FALSE]]
  /\ UNCHANGED <<shelf, listed>>
  /\ UNCHANGED <<mDoc1, mDoc2, mResult, mPc, dispatched, page>>
  /\ UNCHANGED <<storeVars, syncVars>>

\* getAllDocuments answers: the call returns false when it lists one regular
\* document or none, and goes on to DatabaseService.deleteDocument otherwise.
DeleteCheck(c, stamp) ==
  /\ calls[c].pc = "listing"
  /\ LET documents == getAllDocuments(shelf)
         regularDocs == SelectSeq(documents, LAMBDA doc : doc.id # "settings")
     IN  calls' = [calls EXCEPT ![c] =
                     IF Len(regularDocs) <= 1 THEN IdleCall
                     ELSE [@ EXCEPT !.pc = "getting"]]
  /\ shelf' = DefaultSaved(shelf, stamp)
  /\ UNCHANGED listed
  /\ UNCHANGED <<mDoc1, mDoc2, mResult, mPc, dispatched, page>>
  /\ UNCHANGED <<storeVars, syncVars>>

\* db.get(id) answers: not_found is caught and the call returns false.
DeleteGet(c) ==
  /\ calls[c].pc = "getting"
  /\ calls' = [calls EXCEPT ![c] =
                 IF OnShelf(shelf, calls[c].id) THEN [@ EXCEPT !.pc = "removing"]
                 ELSE IdleCall]
  /\ UNCHANGED <<shelf, listed>>
  /\ UNCHANGED <<mDoc1, mDoc2, mResult, mPc, dispatched, page>>
  /\ UNCHANGED <<storeVars, syncVars>>

\* db.remove(doc) answers: the document is removed, unless the revision read
\* is no longer its current one (the rejection is caught, the call returns
\* false).
DeleteRemove(c) ==
  /\ calls[c].pc = "removing"
  /\ shelf' = IF OnShelf(shelf, calls[c].id) /\ ~calls[c].stale
              THEN SelectSeq(shelf, LAMBDA doc : doc.id # calls[c].id)
              ELSE shelf
  /\ calls' = [calls EXCEPT ![c] = IdleCall]
  /\ UNCHANGED listed
  /\ UNCHANGED <<mDoc1, mDoc2, mResult, mPc, dispatched, page>>
  /\ UNCHANGED <<storeVars, syncVars>>

DeskInit == StoreInit /\ MergeIdle /\ SyncIdle

ListNext ==
  \/ \E id \in DeskIds, stamp \in Stamps : Put(id, stamp)
  \/ \E stamp \in Stamps : ListCall(stamp)

ListSpec == DeskInit /\ [][ListNext]_vars

DeleteNext ==
  \/ \E id \in DeskIds, stamp \in Stamps : Put(id, stamp)
  \/ \E c \in Callers, id \in DeskIds \cup {"settings"} : DeleteCall(c, id)
  \/ \E c \in Callers, stamp \in Stamps : DeleteCheck(c, stamp)
  \/ \E c \in Callers : DeleteGet(c)
  \/ \E c \in Callers : DeleteRemove(c)

DeleteSpec == DeskInit /\ [][DeleteNext]_vars

(***************************************************************************)
(* The editor component: typing, the debounced autosave and the refresh on *)
(* 'documentsUpdated'.                                                     *)
(***************************************************************************)
\* What the user types and what the remote replica wrote.
TypedTexts == {"first", "draft", "draft more"}
RemoteTexts == {"remote"}

\* The autosave effect, run after content or currentDocument changed: the
\* pending timeout is cleared, and a new one is set when the text differs
\* from currentDocument.content.
AutosaveEffect(pg) ==
  [pg EXCEPT !.timer = pg.content # pg.currentDocument.content,
             !.isSaved = IF pg.content # pg.currentDocument.content THEN FALSE ELSE @]

PageFrame ==
  /\ UNCHANGED <<shelf, calls, listed>>
  /\ UNCHANGED <<mDoc1, mDoc2, mResult, mPc, dispatched>>
  /\ UNCHANGED <<storeVars, syncVars>>

\* The user edits the text: setContent, then the autosave effect.
Type(text) ==
  /\ text # page.content
  /\ page' = AutosaveEffect([page EXCEPT !.content = text])
  /\ PageFrame

\* The autosave timeout fires: saveDocument({...currentDocument, content,
\* updatedAt}) writes the editor's text to the store.
TimerFires ==
  /\ page.timer /\ ~page.saving
  /\ page.clock < MaxClock
  /\ page' = [page EXCEPT !.timer = FALSE, !.saving = TRUE,
                          !.clock = @ + 1,
                          !.stored = [content |-> page.content, updatedAt |-> page.clock + 1]]
  /\ PageFrame

\* saveDocument resolved with the stored document: setCurrentDocument,
\* setIsSaved(true), then the autosave effect.
AutosaveDone ==
  /\ page.saving
  /\ page' = AutosaveEffect([page EXCEPT !.saving = FALSE, !.isSaved = TRUE,
                                         !.currentDocument = page.stored])
  /\ PageFrame

\* A replicated remote revision (or a conflict merge) becomes the stored
\* document, and 'documentsUpdated' is dispatched with its id.
RemoteChange(text) ==
  /\ page.clock < MaxClock
  /\ page.events < MaxPending
  /\ page' = [page EXCEPT !.clock = @ + 1, !.events = @ + 1,
                          !.stored = [content |-> text, updatedAt |-> page.clock + 1]]
  /\ PageFrame

\* handleDocumentsUpdate up to `await DocumentManager.getDocument(id)`.
RefreshStart ==
  /\ page.events > 0 /\ page.handler.pc = "idle"
  /\ page' = [page EXCEPT !.events = @ - 1,
                          !.handler = [pc |-> "get", seen |-> page.currentDocument.updatedAt]]
  /\ PageFrame

\* handleDocumentsUpdate after the await: a document whose updatedAt differs
\* replaces currentDocument and the editor's text and counts as saved.
Refreshed(pg) ==
  IF pg.stored.updatedAt # pg.handler.seen
  THEN AutosaveEffect([pg EXCEPT !.handler = PageIdle.handler,
                                 !.currentDocument = pg.stored,
                                 !.content = pg.stored.content,
                                 !.isSaved = TRUE])
  ELSE [pg EXCEPT !.handler = PageIdle.handler]

RefreshApply ==
  /\ page.handler.pc = "get"
  /\ page' = Refreshed(page)
  /\ PageFrame

EditorInit == StoreInit /\ MergeIdle /\ SyncIdle

EditorNext ==
  \/ \E text \in TypedTexts : Type(text)
  \/ TimerFires
  \/ AutosaveDone
  \/ \E text \in RemoteTexts : RemoteChange(text)
  \/ RefreshStart
  \/ RefreshApply

EditorSpec == EditorInit /\ [][EditorNext]_vars

(***************************************************************************)
(* The store with its writers: inbound replication, the editor's saves and *)
(* the automatic conflict-resolution calls.                                *)
(***************************************************************************)
Init == StoreInit /\ MergeIdle /\ SyncIdle

Next ==
  \/ Inbound
  \/ \E id \in DocIds : EditorLoad(id)
  \/ \E body \in LocalBodies : SaveCall(body)
  \/ SavePut
  \/ SaveReget
  \/ \E p \in Passes : PassStart(p)
  \/ \E p \in Passes : PassPut(p)
  \/ \E p \in Passes : PassRemove(p)
  \/ \E p \in Passes : PassAdvance(p)

Spec == Init /\ [][Next]_vars

(***************************************************************************)
(* Properties of the merger (checked under MergeSpec).                     *)
(***************************************************************************)
mA == mDoc1.content
mB == mDoc2.content

\* text holds part as a contiguous run of atoms.
OccursIn(part, text) ==
  \E i \in 0..(Len(text) - Len(part)) : SubSeq(text, i + 1, i + Len(part)) = part

LinesPreserved(body, result) ==
  \A i \in 1..Len(Split(body)) :
    Trim(Split(body)[i]) # <<>> => OccursIn(Split(body)[i], result)

LinesWithin(a, b) == \A i \in 1..Len(Split(a)) : Includes(Split(b), Split(a)[i])

\* C2: every line of either body appears verbatim in the merge result.
\* Read in the weakest way: only lines holding a non-whitespace character
\* are asked for, each as a contiguous run of the result's text.
C2_ContentPreserving ==
  mPc = "merged" => LinesPreserved(mA, mResult) /\ LinesPreserved(mB, mResult)

\* C7: merging two versions with the same body A gives exactly A.
C7_MergeSame ==
  (mPc = "merged" /\ mA = mB) => mResult = mA

C7_Witness ==
  mPc = "merged" /\ mA = mB /\ Trim(mA) # mA /\ Trim(mA) # <<>> /\ mResult = mA

\* C8 as stated: merge(A, "") = A for every A, whitespace-only A included,
\* and merge("", B) = B for every B.
C8_EmptyIsNeutral ==
  mPc = "merged" =>
    /\ (mB = <<>> => mResult = mA)
    /\ (mA = <<>> => mResult = mB)

\* C8 amended: merge(A, "") = A for every A that is empty or holds a
\* non-whitespace character, merge(A, "") = "" for a whitespace-only A,
\* and merge("", B) = B for every B.
C8_EmptyIsNeutralUnlessBlank ==
  mPc = "merged" =>
    /\ (mB = <<>> /\ (mA = <<>> \/ Trim(mA) # <<>>) => mResult = mA)
    /\ (mB = <<>> /\ Trim(mA) = <<>> => mResult = <<>>)
    /\ (mA = <<>> => mResult = mB)

C8_Witness ==
  mPc = "merged" /\ mB = <<>> /\ mA = <<"a", NL, "b">> /\ mResult = mA

\* C9: if every line of A is among the lines of B, the merge is exactly B.
C9_SubsetGivesSuperset ==
  (mPc = "merged" /\ LinesWithin(mA, mB)) => mResult = mB

C9_Witness ==
  /\ mPc = "merged" /\ mA # mB
  /\ LinesWithin(mA, mB) /\ LinesWithin(mB, mA)
  /\ Trim(mA) # <<>> /\ Len(mA) = Len(mB)
  /\ mResult = mB

\* The tiers before prefix extension: identity, emptiness, containment and
\* the heavy-containment heuristic.
EarlierTierMatches(a, b) ==
  \/ a = b
  \/ Trim(a) = <<>> \/ Trim(b) = <<>>
  \/ LinesWithin(a, b) \/ LinesWithin(b, a)
  \/ /\ Len(Split(a)) < 5 /\ Len(Split(b)) > Len(Split(a)) * 2
     /\ ContainedCount(Split(a), Split(b)) * 10 >= Len(Split(a)) * 8
  \/ /\ Len(Split(b)) < 5 /\ Len(Split(a)) > Len(Split(b)) * 2
     /\ ContainedCount(Split(b), Split(a)) * 10 >= Len(Split(b)) * 8

\* C10: when no earlier tier matches and one body's text is a prefix of
\* the other's, the merge is the longer body, in either argument position.
C10_PrefixGivesLonger ==
  (mPc = "merged" /\ ~EarlierTierMatches(mA, mB)) =>
    /\ (StartsWith(mA, mB) => mResult = mA)
    /\ (StartsWith(mB, mA) => mResult = mB)

\* Number of places of seq that hold line.
Count(line, seq) == Cardinality({i \in 1..Len(seq) : seq[i] = line})

\* The heavy-containment tier as the specification words it: short has
\* fewer than 5 lines, long more than twice as many, and at least 80% of
\* short's non-blank lines occur in long.
HeavyAsSpecified(short, long) ==
  LET nonBlank == {i \in 1..Len(short) : Trim(short[i]) # <<>>}
      found == {i \in nonBlank : Includes(long, short[i])}
  IN  /\ Len(short) < 5
      /\ Len(long) > Len(short) * 2
      /\ Cardinality(found) * 10 >= Cardinality(nonBlank) * 8

\* Identity, emptiness or containment decides the merge of a and b.
TiersOneToThree(a, b) ==
  \/ a = b
  \/ Trim(a) = <<>> \/ Trim(b) = <<>>
  \/ LinesWithin(a, b) \/ LinesWithin(b, a)

\* No tier before the common-prefix merge matches, and the common leading
\* lines cover at least half of the shorter line sequence.
CommonPrefixApplies(a, b) ==
  LET la == Split(a)
      lb == Split(b)
  IN  /\ ~EarlierTierMatches(a, b)
      /\ ~HeavyAsSpecified(la, lb) /\ ~HeavyAsSpecified(lb, la)
      /\ ~StartsWith(a, b) /\ ~StartsWith(b, a)
      /\ CommonStartFrom(la, lb, 0) * 2 >= Min(Len(la), Len(lb))

\* C11: under the common-prefix merge the result is the common lines once,
\* then what remains of A, then what remains of B, and a non-blank line
\* that is in both remainders is not emitted once for each side.
C11_CommonPrefixMerge ==
  (mPc = "merged" /\ CommonPrefixApplies(mA, mB)) =>
    LET la == Split(mA)
        lb == Split(mB)
        c == CommonStartFrom(la, lb, 0)
        rem1 == SubSeq(la, c + 1, Len(la))
        rem2 == SubSeq(lb, c + 1, Len(lb))
        out == Split(mResult)
        rest == SubSeq(out, c + 1, Len(out))
    IN  /\ SubSeq(out, 1, c) = SubSeq(la, 1, c)
        /\ \A i \in 1..Len(rem1) : Includes(rest, rem1[i])
        /\ \A i \in 1..Len(rem2) : Includes(rest, rem2[i])
        /\ \A i \in 1..Len(rem1) :
             (Trim(rem1[i]) # <<>> /\ Includes(rem2, rem1[i])) =>
               Count(rem1[i], rest) < Count(rem1[i], rem1) + Count(rem1[i], rem2)

\* C12: when tiers 1-3 do not match and the heavy-containment condition
\* holds for one side as the shorter one, the merge is the other side.
C12_HeavyContainmentGivesLonger ==
  (mPc = "merged" /\ ~TiersOneToThree(mA, mB)) =>
    /\ (HeavyAsSpecified(Split(mA), Split(mB)) => mResult = mB)
    /\ (HeavyAsSpecified(Split(mB), Split(mA)) => mResult = mA)

\* mergeContent falls through to its last tier for a and b.
NoStructuralTier(a, b) ==
  /\ ~TiersOneToThree(a, b)
  /\ mergeLinesByContent(Split(a), Split(b)) = NoMerge

\* C13: when no structural tier matches and both versions carry an
\* updatedAt, the result is the composite with the strictly later version's
\* body first under the Recent marker, the other body second under the
\* Earlier marker, and both bodies in full.
C13_CompositeOrdersByTime ==
  (/\ mPc = "merged" /\ NoStructuralTier(mA, mB)
   /\ mDoc1.updatedAt # 0 /\ mDoc2.updatedAt # 0
   /\ mDoc1.updatedAt # mDoc2.updatedAt) =>
    LET later == IF mDoc1.updatedAt > mDoc2.updatedAt THEN mDoc1 ELSE mDoc2
        earlier == IF mDoc1.updatedAt > mDoc2.updatedAt THEN mDoc2 ELSE mDoc1
    IN  /\ StartsWith(mResult, RecentMarker(later.updatedAt) \o <<NL>>
                                 \o later.content \o <<NL>> \o Separator \o <<NL>>
                                 \o earlier.content \o <<NL>>
                                 \o EarlierMarker(earlier.updatedAt) \o <<NL>>)
        /\ OccursIn(mA, mResult) /\ OccursIn(mB, mResult)

C13_Witness ==
  /\ mPc = "merged" /\ NoStructuralTier(mA, mB)
  /\ mDoc1.updatedAt > mDoc2.updatedAt
  /\ Len(Split(mA)) = 2
  /\ StartsWith(mResult, RecentMarker(mDoc1.updatedAt) \o <<NL>> \o mA)

(***************************************************************************)
(* Properties of the store and of automatic resolution (checked under      *)
(* Spec).                                                                  *)
(***************************************************************************)
\* The call p has just finished autoResolveConflict for its row, and no
\* other writer wrote the row's document since the call read its rows.
SettledClean(p) ==
  /\ pass[p].pc = "settled"
  /\ Row(p).id \notin pass[p].touched

\* C1: a saveDocument write that goes through is a child of the revision
\* the caller's document object carried; a write whose revision was
\* replaced as the winner in the meantime does not go through.
C1_StaleWriteRejected ==
  sv.written # 0 => db[sv.id][sv.written].parent = sv.base

\* C3: when a document with more than two leaves has been resolved, the
\* winning body holds the lines of every leaf the resolution started from.
C3_AllLeavesMerged ==
  \A p \in Passes :
    (SettledClean(p) /\ pass[p].ok /\ Len(Row(p).conflicts) >= 2) =>
      LET tree == db[Row(p).id]
          leaves == {Row(p).doc} \cup {Row(p).conflicts[i] : i \in 1..Len(Row(p).conflicts)}
      IN  \A r \in leaves : LinesPreserved(tree[r].content, tree[Winner(tree)].content)

\* C4: when autoResolveConflict has completed for a document and no other
\* writer touched the document meanwhile, the document has exactly one
\* live leaf, the merged revision, and getConflicts no longer lists it.
C4_OneLeafAfterResolve ==
  \A p \in Passes :
    SettledClean(p) =>
      /\ pass[p].ok
      /\ LiveLeaves(db[Row(p).id]) = {pass[p].merged}
      /\ \A i \in 1..Len(getConflicts(db)) : getConflicts(db)[i].id # Row(p).id

C4_Witness ==
  \E p \in Passes :
    /\ SettledClean(p) /\ pass[p].ok
    /\ Len(Row(p).conflicts) >= 2
    /\ LiveLeaves(db[Row(p).id]) = {pass[p].merged}

\* C5: a call of autoResolveConflicts that begins after an earlier call
\* has returned, with no remote change (hence no new conflict) since that
\* earlier call began, returns 0 and writes no revision.
C5_SecondCallResolvesNothing ==
  \A p \in Passes :
    (pass[p].pc = "done" /\ pass[p].afterQuiet) =>
      pass[p].ret = 0 /\ pass[p].writes = 0

\* C6: the number autoResolveConflicts returns is the number of documents
\* whose conflict the call resolved.
C6_ReturnCountsResolved ==
  \A p \in Passes :
    pass[p].pc = "done" => pass[p].ret = pass[p].resolved

\* The call p has just resolved a document that had exactly two leaves
\* when the call read it, and no other writer wrote it meanwhile.
ResolvedPair(p) == SettledClean(p) /\ Len(Row(p).conflicts) = 1

\* Bodies of the two leaves the call p started from.
WinnerBody(p) == db[Row(p).id][Row(p).doc].content
LoserBody(p) == db[Row(p).id][Row(p).conflicts[1]].content

Listed(id) == \E i \in 1..Len(getConflicts(db)) : getConflicts(db)[i].id = id

\* No shared line, neither body a prefix of the other, neither blank.
Unrelated(a, b) ==
  /\ Trim(a) # <<>> /\ Trim(b) # <<>>
  /\ \A i \in 1..Len(Split(a)) : ~Includes(Split(b), Split(a)[i])
  /\ ~StartsWith(a, b) /\ ~StartsWith(b, a)

IsComposite(body) == body # <<>> /\ body[1] = RecentMarker(0)[1]

\* C14: a document whose two live leaves hold unrelated bodies is listed
\* by getConflicts; once autoResolveConflicts has resolved it undisturbed,
\* its winning body is a composite holding both bodies and getConflicts
\* lists it no more.
C14_UnrelatedGivesComposite ==
  /\ \A id \in DocIds :
       (\E r1, r2 \in LiveLeaves(db[id]) :
          r1 # r2 /\ Unrelated(db[id][r1].content, db[id][r2].content)) => Listed(id)
  /\ \A p \in Passes :
       (ResolvedPair(p) /\ Unrelated(WinnerBody(p), LoserBody(p))) =>
         LET body == db[Row(p).id][Winner(db[Row(p).id])].content
         IN  /\ IsComposite(body)
             /\ OccursIn(WinnerBody(p), body) /\ OccursIn(LoserBody(p), body)
             /\ ~Listed(Row(p).id)

C14_Witness ==
  \E p \in Passes :
    /\ ResolvedPair(p) /\ Unrelated(WinnerBody(p), LoserBody(p))
    /\ IsComposite(db[Row(p).id][Winner(db[Row(p).id])].content)
    /\ ~Listed(Row(p).id)

\* longer is shorter with lines appended.
Appended(shorter, longer) == StartsWith(longer, shorter \o <<NL>>)

StopOps == {"stopSync", "handleConfigChange(disabled)", "handleConfigChange(enabled)"}

NoLiveSession(sess) == \A s \in Sessions : sess[s].st # "live"

\* C16: stopSync, called in any state (on its own, from a configuration
\* change that disables sync, or as the first thing setupSync does), cancels
\* the session the handle refers to, clears the handle, and leaves the status
\* 'disconnected' with a null error.
C16_StopDisconnects ==
  [][lastOp' \in StopOps =>
       /\ syncStatus' = "disconnected"
       /\ syncError' = NoError
       /\ syncHandler' = 0
       /\ (syncHandler # 0 => session'[syncHandler].st # "live")]_vars

\* A stop has just cancelled a session that was in the middle of a round.
C16_Witness ==
  /\ lastOp \in {"stopSync", "handleConfigChange(disabled)"}
  /\ \E s \in Sessions : session[s].st = "cancelled"
  /\ syncStatus = "disconnected"
  /\ \A l \in Listeners : lastNotified[l].status = "disconnected"

\* What was under way when sync was disabled and finishes afterwards: a
\* setupSync awaiting its connection test, the cancelled session's events.
InFlightOps == {"setupSync(connected)", "setupSync(failed)", "complete"}

\* C17: once sync has been disabled and not enabled since, whatever was in
\* flight at the time finishes without moving the status away from
\* 'disconnected' and without a continuous session coming to exist.
C17_DisabledStaysDisconnected ==
  [][(disabled /\ disabled' /\ lastOp' \in InFlightOps) =>
       (syncStatus' = "disconnected" /\ NoLiveSession(session'))]_vars

\* The six phases, with the code's 'connected' (handshake done, nothing
\* replicated yet) standing for Connecting and 'syncing' for Active.
SixPhases == {"disconnected", "connected", "syncing", "up-to-date", "error", "offline"}

\* C19: the phase is 'disconnected' at construction (and while sync is
\* idle), every step leaves it one of the six phases, and the phase leaves
\* 'disconnected' only in a setupSync.
C19_SixPhasesEnableLeaves ==
  [][/\ syncStatus' \in SixPhases
     /\ (syncStatus = "disconnected" /\ syncStatus' # "disconnected")
          => lastOp' \in {"setupSync(connected)", "setupSync(failed)"}]_vars

\* C20: a failed handshake leaves the status 'error' with its message, and
\* while that failed handshake is the latest setupSync (no re-enable, no
\* reconnect) no step starts a continuous session.
C20_NoSessionAfterFailedHandshake ==
  [][/\ lastOp' = "setupSync(failed)" => (syncStatus' = "error" /\ syncError' # NoError)
     /\ (handshake = "failed" /\ handshake' = "failed")
          => \A s \in Sessions : session'[s].st = "live" => session[s].st = "live"]_vars

UserOps == {"handleConfigChange(enabled)", "handleConfigChange(disabled)", "stopSync",
            "forceSync", "pushToRemote", "pullFromRemote", "refused"}

\* What takes the matter out of the failed session's hands: a call made by
\* the user, the browser going offline, an error that is not retried, or an
\* error reported from elsewhere.
Intervened == lastOp \in UserOps \cup {"handleOffline", "error", "denied", "oneshot(failed)"}

\* C18: with continuous replication active, a transport failure in a round
\* makes the status 'error' and changes no stored document, and afterwards
\* the status leaves 'error' for a connecting or active phase again
\* without any user action.
C18_ErrorIsLeftAutomatically ==
  /\ (lastOp = "paused(err)" /\ syncStatus = "error")
        ~> (syncStatus \in {"connecting", "syncing", "up-to-date"} \/ Intervened)
  /\ [][lastOp' = "paused(err)" => (syncStatus' = "error" /\ db' = db)]_vars

\* The events of a continuous session that report replication activity.
ActivityOps == {"change", "paused", "paused(resumed)", "active"}

\* C21: once a continuous session has reported a denied response (status
\* 'error', error 'Access denied'), no further replication activity of a
\* session moves the status away from 'error'.
C21_DeniedStaysError ==
  [][(syncStatus = "error" /\ syncError = "Access denied" /\ lastOp' \in ActivityOps)
       => syncStatus' = "error"]_vars

\* Every event a continuous session can deliver.
SessionEventOps == ActivityOps \cup {"paused(err)", "denied", "error", "complete"}

\* C22: going offline sets the status 'offline' at once, and while isOnline
\* stays false no event of a continuous session moves the status away from
\* 'offline'.
C22_OfflineStaysOffline ==
  [][/\ lastOp' = "handleOffline" => syncStatus' = "offline"
     /\ (~isOnline /\ ~isOnline' /\ syncStatus = "offline" /\ lastOp' \in SessionEventOps)
          => syncStatus' = "offline"]_vars

\* C23: when handleOnline runs with sync enabled in the configuration it
\* opens a continuous session, and the status, if 'offline', leaves
\* 'offline' (unless connectivity is lost again first); with sync not
\* enabled handleOnline starts no session.
C23_OnlineReestablishes ==
  /\ [][lastOp' = "handleOnline" =>
          IF cfgEnabled
          THEN /\ syncHandler' # 0
               /\ session'[syncHandler'].st = "live"
               /\ session[syncHandler'].st # "live"
          ELSE session' = session /\ syncHandler' = syncHandler]_vars
  /\ (lastOp = "handleOnline" /\ cfgEnabled /\ syncStatus = "offline")
       ~> (syncStatus # "offline" \/ ~isOnline)

\* handleOnline has just run with sync enabled while the status was
\* 'offline', and the handle refers to a live session.
C23_Witness ==
  /\ lastOp = "handleOnline"
  /\ cfgEnabled
  /\ isOnline
  /\ syncStatus = "offline"
  /\ syncHandler # 0
  /\ session[syncHandler].st = "live"

\* C24: forceSync, pushToRemote and pullFromRemote are refused ('Not
\* connected') exactly when there is no remote database or isOnline is
\* false, and a refused call leaves status, error, lastSyncTime and the
\* document store as they were and notifies no listener.
C24_RefusedWhenNotConnected ==
  [][/\ lastOp' \in OneShots => (remoteDB /\ isOnline)
     /\ lastOp' = "refused" =>
          /\ ~remoteDB \/ ~isOnline
          /\ UNCHANGED <<syncStatus, syncError, lastSyncTime, db, lastNotified, oneshot>>]_vars

\* A one-shot operation has just been refused while a remote is configured
\* and the browser is offline.
C24_Witness ==
  /\ lastOp = "refused"
  /\ remoteDB
  /\ ~isOnline
  /\ syncStatus = "offline"

\* The handlers whose last statement is notifyListeners().
NotifyingOps == {"handleConfigChange(disabled)", "stopSync", "setupSync(connected)",
                 "setupSync(failed)", "handleOffline", "change", "paused(err)", "active",
                 "denied", "error", "complete", "oneshot(done)", "oneshot(failed)",
                 "paused(resumed)"} \cup OneShots

\* C25: with a listener that throws registered before the others, every
\* listener has still received the same status, and when a handler that ends
\* by notifying has run, that status is the one the handler left (its
\* assignments are kept and the handler ran to its end).
C25_ThrowingListenerIsolated ==
  /\ \A l \in Listeners : lastNotified[l] = lastNotified[1]
  /\ lastOp \in NotifyingOps => \A l \in Listeners : lastNotified[l] = getStatus

\* The throwing listener and the one after it have both received the
\* status a 'change' event left.
C25_Witness ==
  /\ lastOp = "change"
  /\ 1 \in Throwing
  /\ \A l \in Listeners : lastNotified[l].status = "syncing"

\* Nothing of the coordinator is awaiting a result.
Quiescent == nSetup = 0 /\ oneshot = "none" /\ pausedPending = 0

\* C26: once the coordinator is quiescent, the status every listener last
\* received equals getStatus().
C26_ListenersSeeStatus ==
  Quiescent => \A l \in Listeners : lastNotified[l] = getStatus

(***************************************************************************)
(* Further claims about automatic resolution (checked under Spec).         *)
(***************************************************************************)
\* The call p has finished autoResolveConflict for its row; it is the only
\* resolution call so far and no remote change arrived since it began, so
\* the only other writer there can have been is the editor's save.
SettledBesideEditor(p) ==
  /\ pass[p].pc = "settled"
  /\ pass[p].fresh
  /\ \A q \in Passes \ {p} : pass[q].pc = "idle"

\* C27: when at most a local edit was written between the resolution's read
\* of the leaves and its write of the merged revision, the same resolve call
\* still resolves the conflict: it returns true and leaves the document with
\* a single live leaf.
C27_ResolvesDespiteLocalEdit ==
  \A p \in Passes :
    SettledBesideEditor(p) =>
      /\ pass[p].ok
      /\ Cardinality(LiveLeaves(db[Row(p).id])) = 1

\* The revision is no leaf of the tree because it was removed (a tombstone
\* sits on it), not because an edit replaced it.
Removed(tree, rev) == \E r \in Revs(tree) : tree[r].parent = rev /\ tree[r].deleted

\* C28: when resolveConflict has returned and the only losing revisions
\* that had stopped being leaves were ones somebody had already removed, no
\* losing revision is a live leaf of the document any more.
C28_ManualRemovesEveryLoser ==
  (/\ man.pc = "done"
   /\ \A i \in 1..Len(man.losing) :
        man.losing[i] \notin Leaves(db[man.id]) => Removed(db[man.id], man.losing[i]))
    => \A i \in 1..Len(man.losing) : man.losing[i] \notin LiveLeaves(db[man.id])

Running(p) == pass[p].pc \notin {"idle", "done"}

C30_MergeEventIsDistinct ==
  \A i, j \in 1..Len(dispatched) :
    (dispatched[i].cause = "merge" /\ dispatched[j].cause = "change")
      => dispatched[i].event # dispatched[j].event

(***************************************************************************)
(* Claims about the document manager (checked under ListSpec and           *)
(* DeleteSpec).                                                            *)
(***************************************************************************)
ListsShelf(result, sh) ==
  /\ Len(result) = Len(sh) + 1
  /\ {result[i] : i \in 2..Len(result)} = {sh[i] : i \in 1..Len(sh)}

NewestFirst(result) ==
  \A i, j \in 2..Len(result) :
    i < j => DateValue(result[i].updatedAt) >= DateValue(result[j].updatedAt)

\* C31: a call of getAllDocuments on a store that holds documents returns
\* the settings document followed by exactly the stored documents, each no
\* older (by updatedAt) than the one after it, whatever order they were
\* inserted in.
C31_ListedNewestFirst ==
  [][(shelf # <<>> /\ listed' # listed)
       => /\ listed'[1] = settingsDoc
          /\ ListsShelf(listed', shelf)
          /\ NewestFirst(listed')]_vars

\* Three documents are listed, in an order that is neither the order they
\* were inserted in nor the order allDocs returns them in.
C31_Witness ==
  /\ Len(shelf) = 3
  /\ ListsShelf(listed, shelf)
  /\ Tail(listed) # shelf
  /\ Tail(listed) # allDocs(shelf)
  /\ shelf # allDocs(shelf)

\* C32: deleteDocument never removes the last remaining regular document: no
\* step takes a store that holds a regular document to a store that holds
\* none, also when two deleteDocument calls are in flight together.
C32_LastDocumentIsKept ==
  [][shelf # <<>> => shelf' # <<>>]_vars

\* C33: every session startContinuousSync created is the one syncHandler
\* refers to or has been cancelled, so at most one session is live.
C33_OneLiveSession ==
  \A s \in Sessions : session[s].st = "live" => syncHandler = s

\* Both calls of autoResolveConflicts have returned, each having read the
\* row of the one document that a single remote change left conflicted (so
\* the second began before the first had resolved it), and the editor saved
\* nothing.
BothPassesRan ==
  /\ nInbound = 1
  /\ sv = IdleSave
  /\ \A p \in Passes : pass[p].pc = "done" /\ pass[p].ret >= 1

C35_ErrorOnlyWithErrorStatus ==
  syncError # NoError => syncStatus = "error"

\* C36: getStatus().isConnected is false after a setupSync whose connection
\* test failed and after stopSync.
C36_ConnectedOnlyAfterHandshake ==
  lastOp \in {"setupSync(failed)", "stopSync"} => ~getStatus.isConnected

\* C37: a saveDocument call whose store write was refused settles as an
\* error the caller can tell from success: its promise is rejected.
C37_WriteFailureIsReported ==
  (sv.pc = "done" /\ sv.outcome = "swallowed") => sv.settled = "rejected"

(***************************************************************************)
(* Claims about the editor component (checked under EditorSpec).           *)
(***************************************************************************)
\* C38: when the refresh on 'documentsUpdated' is applied while the editor
\* holds text that is not saved yet (it differs from currentDocument and
\* the autosave timeout is pending), that text stays in the editor or is in
\* the store afterwards.
C38_UnsavedTextSurvivesRefresh ==
  [][(/\ page.handler.pc = "get" /\ page'.handler.pc = "idle"
      /\ page.timer
      /\ page.content # page.currentDocument.content)
       => (page'.content = page.content \/ page'.stored.content = page.content)]_vars

(***************************************************************************)
(* The heavy-containment branch of mergeLinesByContent (checked under      *)
(* LineMergeSpec).                                                         *)
(***************************************************************************)
\* mergeLinesByContent with its two heavy-containment tests taken out.
LinesMergedWithoutContainment(lines1, lines2) ==
  LET lines1Str == Join(lines1)
      lines2Str == Join(lines2)
      commonStart == CommonStartFrom(lines1, lines2, 0)
  IN
  IF StartsWith(lines1Str, lines2Str) \/ StartsWith(lines2Str, lines1Str)
  THEN (IF Len(lines1) > Len(lines2) THEN lines1 ELSE lines2)
  ELSE IF commonStart > 0 /\ commonStart * 2 >= Min(Len(lines1), Len(lines2))
  THEN SubSeq(lines1, 1, commonStart)
         \o SubSeq(lines1, commonStart + 1, Len(lines1))
         \o SubSeq(lines2, commonStart + 1, Len(lines2))
  ELSE NoMerge

\* mergeContent over that line merger.
MergedWithoutContainment(doc1, doc2) ==
  LET content1 == ContentOf(doc1)
      content2 == ContentOf(doc2)
      lines1 == Split(content1)
      lines2 == Split(content2)
      mergedLines == LinesMergedWithoutContainment(lines1, lines2)
  IN
  IF content1 = content2 THEN content1
  ELSE IF Trim(content1) = <<>> THEN content2
  ELSE IF Trim(content2) = <<>> THEN content1
  ELSE IF \A i \in 1..Len(lines1) : Includes(lines2, lines1[i]) THEN content2
  ELSE IF \A i \in 1..Len(lines2) : Includes(lines1, lines2[i]) THEN content1
  ELSE IF mergedLines # NoMerge THEN Join(mergedLines)
  ELSE Composite(doc1, doc2)

\* The condition of a heavy-containment test: `short` has fewer than 5
\* lines, `long` more than twice as many, and the non-blank lines of `short`
\* found in `long` number at least 0.8 of all lines of `short`.
HeavilyContained(short, long) ==
  /\ Len(short) < 5
  /\ Len(long) > Len(short) * 2
  /\ ContainedCount(short, long) * 10 >= Len(short) * 8

\* C39: for all bodies, mergeContent returns what it returns with the
\* heavy-containment tests of mergeLinesByContent removed.
C39_ContainmentBranchNeverDecides ==
  mPc = "merged" => mResult = MergedWithoutContainment(mDoc1, mDoc2)

\* Two different bodies that satisfy a heavy-containment test have been
\* merged.
C39_Witness ==
  /\ mPc = "merged"
  /\ ContentOf(mDoc1) # ContentOf(mDoc2)
  /\ \/ HeavilyContained(Split(ContentOf(mDoc1)), Split(ContentOf(mDoc2)))
     \/ HeavilyContained(Split(ContentOf(mDoc2)), Split(ContentOf(mDoc1)))

====
